---- MODULE Spec2Model ----
(***************************************************************************)
(* A model of backpack's unified file handle, src/pack/file.rs: the enum   *)
(* RawFile with its two variants (Disk, InMemory), its constructors, its   *)
(* operations and its Read/Write/Seek implementations.                     *)
(*                                                                         *)
(* The state is the value the caller holds: a RawFile (h), or the          *)
(* InMemoryFile that into_memory / convert_into_memory returned (mem),     *)
(* together with the regular file the disk variant's descriptor is open    *)
(* on (disk), the result of the last call (ret) and the system calls that  *)
(* call made on the descriptor (sys).                                      *)
(*                                                                         *)
(* std::fs::File is modelled by its documented behaviour on a regular      *)
(* file: File::create opens write-only and truncates, File::open opens     *)
(* read-only, reads and writes check the access mode of the descriptor,    *)
(* set_len leaves the cursor alone. crate::pack::in_memory::InMemoryFile   *)
(* is not among the sources; it is modelled as the cursor over a growable  *)
(* byte buffer with an optional name that the specification describes.     *)
(* The I/O failures modelled are the ones the handle's own state decides   *)
(* (access mode, a seek before offset 0) and the failure of open/create.   *)
(***************************************************************************)
EXTENDS Integers, Sequences, FiniteSets, TLC

VARIABLES h, mem, disk, last, ret, sys, scen

vars == <<h, mem, disk, last, ret, sys, scen>>

----------------------------------------------------------------------------
(* Bounds of the model *)

\* The longest backing store (file or buffer), in bytes.
MaxLen == 5

----------------------------------------------------------------------------
(* Values *)

Min(a, b) == IF a < b THEN a ELSE b

Max(a, b) == IF a > b THEN a ELSE b

Zeros(n) == [i \in 1..n |-> 0]

\* b"hello"
Hello == <<104, 101, 108, 108, 111>>

\* b"\x01\x02\x03"
Bytes123 == <<1, 2, 3>>

\* The buffers handed to write, and the contents a file may have when it is opened.
WriteBufs == {Bytes123, Hello}

InitContents == {<<>>, Bytes123}

ReadSizes == {1, Len(Hello), MaxLen}

\* The sizes handed to set_len: nothing, a short file, the longest file.
Sizes == {0, 2, MaxLen}

\* A path is a sequence of units; one unit is not valid Unicode.
Invalid == "\\xFF"

Replacement == "U+FFFD"

Paths == {<<"foo">>, <<"tmp", Invalid>>}

None == [tag |-> "None", val |-> <<>>]

Some(v) == [tag |-> "Some", val |-> v]

Ok(v) == [kind |-> "Ok", val |-> v]

Err(e) == [kind |-> "Err", val |-> e]

Panic == [kind |-> "Panic", val |-> "not yet implemented"]

NoHandle == [variant |-> "None"]

NoMem == [tag |-> "None"]

Start(n) == [from |-> "Start", off |-> n]

Current(n) == [from |-> "Current", off |-> n]

End(n) == [from |-> "End", off |-> n]

\* The positions handed to seek.
SeekArgs == {Start(0), Current(-1), End(1)}

\* A cursor may stand one byte past the longest backing store.
MaxPos == MaxLen + 1

----------------------------------------------------------------------------
(* Path::to_string_lossy: every unit that is not valid Unicode becomes     *)
(* U+FFFD.                                                                 *)

to_string_lossy(p) == [i \in DOMAIN p |-> IF p[i] = Invalid THEN Replacement ELSE p[i]]

IsUnicode(p) == \A i \in DOMAIN p : p[i] # Invalid

----------------------------------------------------------------------------
(* The byte store shared by both backings: what a positioned read returns, *)
(* what a positioned write leaves, what a resize leaves.                   *)

ReadAt(data, pos, n) ==
    IF pos >= Len(data) THEN <<>> ELSE SubSeq(data, pos + 1, Min(Len(data), pos + n))

WriteAt(data, pos, buf) ==
    LET padded == IF pos > Len(data) THEN data \o Zeros(pos - Len(data)) ELSE data
        newLen == Max(Len(padded), pos + Len(buf))
    IN  [i \in 1..newLen |->
            IF i > pos /\ i <= pos + Len(buf) THEN buf[i - pos] ELSE padded[i]]

Resize(data, size) ==
    IF size <= Len(data) THEN SubSeq(data, 1, size) ELSE data \o Zeros(size - Len(data))

SeekTarget(pos, len, to) ==
    CASE to.from = "Start" -> to.off
      [] to.from = "Current" -> pos + to.off
      [] OTHER -> len + to.off

----------------------------------------------------------------------------
(* std::fs::File on a regular file. A descriptor is its cursor and its     *)
(* access mode; d is the content of the file it is open on. Each operator  *)
(* gives the call's result, the descriptor and the content afterwards.     *)

File(pos, readable, writable) == [pos |-> pos, readable |-> readable, writable |-> writable]

\* File::create: write-only, the file truncated to nothing.
file_create == File(0, FALSE, TRUE)

\* File::open: read-only, the file left as it is.
file_open == File(0, TRUE, FALSE)

file_read(file, d, n) ==
    IF ~file.readable
    THEN [ret |-> Err("IoError"), file |-> file, disk |-> d]
    ELSE LET got == ReadAt(d, file.pos, n)
         IN  [ret |-> Ok(got), file |-> [file EXCEPT !.pos = @ + Len(got)], disk |-> d]

\* Read::read_to_end: read until a read returns nothing.
file_read_to_end(file, d) ==
    IF ~file.readable
    THEN [ret |-> Err("IoError"), file |-> file, disk |-> d]
    ELSE LET got == ReadAt(d, file.pos, Len(d))
         IN  [ret |-> Ok(got), file |-> [file EXCEPT !.pos = @ + Len(got)], disk |-> d]

file_write(file, d, buf) ==
    IF ~file.writable
    THEN [ret |-> Err("IoError"), file |-> file, disk |-> d]
    ELSE [ret |-> Ok(Len(buf)),
          file |-> [file EXCEPT !.pos = @ + Len(buf)],
          disk |-> WriteAt(d, file.pos, buf)]

file_seek(file, d, to) ==
    LET t == SeekTarget(file.pos, Len(d), to)
    IN  IF t < 0
        THEN [ret |-> Err("IoError"), file |-> file, disk |-> d]
        ELSE [ret |-> Ok(t), file |-> [file EXCEPT !.pos = t], disk |-> d]

\* File::set_len: the cursor is not changed.
file_set_len(file, d, size) ==
    IF ~file.writable
    THEN [ret |-> Err("IoError"), file |-> file, disk |-> d]
    ELSE [ret |-> Ok("()"), file |-> file, disk |-> Resize(d, size)]

file_metadata(file, d) == [ret |-> Ok([len |-> Len(d)]), file |-> file, disk |-> d]

file_sync(file, d) == [ret |-> Ok("()"), file |-> file, disk |-> d]

\* File::flush does nothing: File has no buffer of its own.
file_flush(file, d) == [ret |-> Ok("()"), file |-> file, disk |-> d]

----------------------------------------------------------------------------
(* crate::pack::in_memory::InMemoryFile: an optional name and a cursor     *)
(* over a byte buffer. Each operator gives the call's result and the file  *)
(* afterwards.                                                             *)

InMemoryFile(name, data, pos) == [name |-> name, data |-> data, pos |-> pos]

\* InMemoryFile::new(name): empty, named.
mem_new(path) == InMemoryFile(Some(to_string_lossy(path)), <<>>, 0)

\* From<Vec<u8>> for InMemoryFile: anonymous, the cursor at 0.
mem_from_vec(data) == InMemoryFile(None, data, 0)

mem_with_name(f, path) == [f EXCEPT !.name = Some(to_string_lossy(path))]

mem_name(f) == f.name

mem_current_offset(f) == f.pos

mem_read(f, n) ==
    LET got == ReadAt(f.data, f.pos, n)
    IN  [ret |-> Ok(got), f |-> [f EXCEPT !.pos = @ + Len(got)]]

mem_write(f, buf) ==
    [ret |-> Ok(Len(buf)),
     f |-> [f EXCEPT !.data = WriteAt(f.data, f.pos, buf), !.pos = @ + Len(buf)]]

mem_flush(f) == [ret |-> Ok("()"), f |-> f]

mem_seek(f, to) ==
    LET t == SeekTarget(f.pos, Len(f.data), to)
    IN  IF t < 0 THEN [ret |-> Err("IoError"), f |-> f]
        ELSE [ret |-> Ok(t), f |-> [f EXCEPT !.pos = t]]

\* Truncate or zero-extend; a cursor past the new end moves to the new end.
mem_set_len(f, size) ==
    [ret |-> Ok("()"),
     f |-> [f EXCEPT !.data = Resize(f.data, size), !.pos = Min(@, size)]]

----------------------------------------------------------------------------
(* enum RawFile. Each method is an operator from the handle (and, for the  *)
(* disk variant, the content d of its file) to an outcome: the result      *)
(* returned, the RawFile (h) and the InMemoryFile (mem) the caller holds   *)
(* afterwards, the content of the file, and the system calls made on the   *)
(* descriptor.                                                             *)

RawFile_InMemory(f) == [variant |-> "InMemory", f |-> f]

RawFile_Disk(name, file) == [variant |-> "Disk", name |-> name, file |-> file]

Outcome(r, handle, m, d, calls) == [ret |-> r, h |-> handle, mem |-> m, disk |-> d, sys |-> calls]

\* The disk arm of a &mut self method that hands the call to the descriptor.
OnFile(self, r, calls) ==
    Outcome(r.ret, [self EXCEPT !.file = r.file], NoMem, r.disk, calls)

\* The memory arm of a &mut self method that hands the call to the InMemoryFile.
OnMem(self, r, d) == Outcome(r.ret, [self EXCEPT !.f = r.f], NoMem, d, <<>>)

\* into_memory as it would be if the disk arm rebuilt the handle and lost its name.
into_memory_drops_name(self, d) ==
    IF self.variant = "InMemory"
    THEN Outcome(Ok("InMemoryFile"), NoHandle, self.f, d, <<>>)
    ELSE Outcome(Err("RawFile"), RawFile_Disk(None, self.file), NoMem, d, <<>>)

\* into_memory as it would be if the disk arm read the file, as convert_into_memory does.
into_memory_converts(self, d) ==
    IF self.variant = "InMemory"
    THEN Outcome(Ok("InMemoryFile"), NoHandle, self.f, d, <<>>)
    ELSE LET r == file_read_to_end(self.file, d)
         IN  IF r.ret.kind = "Err"
             THEN Outcome(Err("RawFile"), [self EXCEPT !.file = r.file], NoMem, r.disk, <<"read">>)
             ELSE Outcome(Ok("InMemoryFile"), NoHandle, InMemoryFile(self.name, r.ret.val, 0),
                          r.disk, <<"read">>)

into_memory(self, d) ==
    IF self.variant = "InMemory"
    THEN Outcome(Ok("InMemoryFile"), NoHandle, self.f, d, <<>>)
    ELSE Outcome(Err("RawFile"), self, NoMem, d, <<>>)

\* convert_into_memory as it would be if the disk arm read the file from its start.
convert_into_memory_whole_file(self, d) ==
    IF self.variant = "InMemory"
    THEN Outcome(Ok("InMemoryFile"), NoHandle, self.f, d, <<>>)
    ELSE LET r == file_read_to_end([self.file EXCEPT !.pos = 0], d)
         IN  IF r.ret.kind = "Err"
             THEN Outcome(Err("IoError"), NoHandle, NoMem, r.disk, <<"seek", "read">>)
             ELSE Outcome(Ok("InMemoryFile"), NoHandle,
                          IF self.name.tag = "Some"
                          THEN InMemoryFile(Some(self.name.val), r.ret.val, 0)
                          ELSE mem_from_vec(r.ret.val),
                          r.disk, <<"seek", "read">>)

\* convert_into_memory as it would be if the memory arm wrapped the bytes in a new cursor.
convert_into_memory_rewinds(self, d) ==
    IF self.variant = "InMemory"
    THEN Outcome(Ok("InMemoryFile"), NoHandle,
                 InMemoryFile(self.f.name, self.f.data, 0), d, <<>>)
    ELSE LET r == file_read_to_end(self.file, d)
         IN  IF r.ret.kind = "Err"
             THEN Outcome(Err("IoError"), NoHandle, NoMem, r.disk, <<"read">>)
             ELSE Outcome(Ok("InMemoryFile"), NoHandle,
                          IF self.name.tag = "Some"
                          THEN InMemoryFile(Some(self.name.val), r.ret.val, 0)
                          ELSE mem_from_vec(r.ret.val),
                          r.disk, <<"read">>)

convert_into_memory(self, d) ==
    IF self.variant = "InMemory"
    THEN Outcome(Ok("InMemoryFile"), NoHandle, self.f, d, <<>>)
    ELSE LET r == file_read_to_end(self.file, d)
         IN  IF r.ret.kind = "Err"
             THEN Outcome(Err("IoError"), NoHandle, NoMem, r.disk, <<"read">>)
             ELSE Outcome(Ok("InMemoryFile"), NoHandle,
                          IF self.name.tag = "Some"
                          THEN InMemoryFile(Some(self.name.val), r.ret.val, 0)
                          ELSE mem_from_vec(r.ret.val),
                          r.disk, <<"read">>)

\* with_name as it would be if the disk arm kept a name that was already set.
with_name_keeps_old(self, d, path) ==
    IF self.variant = "InMemory"
    THEN Outcome(Ok("RawFile"), RawFile_InMemory(mem_with_name(self.f, path)), NoMem, d, <<>>)
    ELSE Outcome(Ok("RawFile"),
                 RawFile_Disk(IF self.name.tag = "Some" THEN self.name
                              ELSE Some(to_string_lossy(path)), self.file),
                 NoMem, d, <<>>)

with_name(self, d, path) ==
    IF self.variant = "InMemory"
    THEN Outcome(Ok("RawFile"), RawFile_InMemory(mem_with_name(self.f, path)), NoMem, d, <<>>)
    ELSE Outcome(Ok("RawFile"), RawFile_Disk(Some(to_string_lossy(path)), self.file),
                 NoMem, d, <<>>)

in_memory(path) == Outcome(Ok("RawFile"), RawFile_InMemory(mem_new(path)), NoMem, <<>>, <<>>)

\* created: whether File::create succeeded.
create(path, created) ==
    IF created
    THEN Outcome(Ok("RawFile"), RawFile_Disk(Some(to_string_lossy(path)), file_create),
                 NoMem, <<>>, <<"open">>)
    ELSE Outcome(Err("IoError"), NoHandle, NoMem, <<>>, <<"open">>)

\* opened: whether File::open succeeded; d: the content of the file at the path.
open(path, opened, d) ==
    IF opened
    THEN Outcome(Ok("RawFile"), RawFile_Disk(Some(to_string_lossy(path)), file_open),
                 NoMem, d, <<"open">>)
    ELSE Outcome(Err("IoError"), NoHandle, NoMem, <<>>, <<"open">>)

current_offset(self, d) ==
    IF self.variant = "Disk"
    THEN OnFile(self, file_seek(self.file, d, Current(0)), <<"seek">>)
    ELSE Outcome(Ok(mem_current_offset(self.f)), self, NoMem, d, <<>>)

sync_all(self, d) ==
    IF self.variant = "Disk"
    THEN OnFile(self, file_sync(self.file, d), <<"fsync">>)
    ELSE Outcome(Ok("()"), self, NoMem, d, <<>>)

sync_data(self, d) ==
    IF self.variant = "InMemory"
    THEN Outcome(Ok("()"), self, NoMem, d, <<>>)
    ELSE OnFile(self, file_sync(self.file, d), <<"fdatasync">>)

\* todo!() panics.
metadata(self, d) ==
    IF self.variant = "InMemory"
    THEN Outcome(Panic, self, NoMem, d, <<>>)
    ELSE OnFile(self, file_metadata(self.file, d), <<"fstat">>)

\* set_len as it would be if the disk arm moved a cursor left past the end to the end.
set_len_moves_cursor(self, d, size) ==
    IF self.variant = "InMemory"
    THEN OnMem(self, mem_set_len(self.f, size), d)
    ELSE LET r == file_set_len(self.file, d, size)
         IN  IF r.ret.kind = "Err" THEN OnFile(self, r, <<"ftruncate">>)
             ELSE OnFile(self, [r EXCEPT !.file.pos = Min(@, size)], <<"ftruncate", "seek">>)

set_len(self, d, size) ==
    IF self.variant = "InMemory"
    THEN OnMem(self, mem_set_len(self.f, size), d)
    ELSE OnFile(self, file_set_len(self.file, d, size), <<"ftruncate">>)

name(self, d) ==
    IF self.variant = "InMemory"
    THEN Outcome([kind |-> "Value", val |-> mem_name(self.f)], self, NoMem, d, <<>>)
    ELSE Outcome([kind |-> "Value", val |-> self.name], self, NoMem, d, <<>>)

write(self, d, buf) ==
    IF self.variant = "Disk"
    THEN OnFile(self, file_write(self.file, d, buf), <<"write">>)
    ELSE OnMem(self, mem_write(self.f, buf), d)

flush(self, d) ==
    IF self.variant = "Disk"
    THEN OnFile(self, file_flush(self.file, d), <<>>)
    ELSE OnMem(self, mem_flush(self.f), d)

read(self, d, n) ==
    IF self.variant = "Disk"
    THEN OnFile(self, file_read(self.file, d, n), <<"read">>)
    ELSE OnMem(self, mem_read(self.f, n), d)

seek(self, d, to) ==
    IF self.variant = "Disk"
    THEN OnFile(self, file_seek(self.file, d, to), <<"seek">>)
    ELSE OnMem(self, mem_seek(self.f, to), d)

\* From<std::fs::File>: no name.
from_file(file, d) == Outcome(Ok("RawFile"), RawFile_Disk(None, file), NoMem, d, <<>>)

\* From<InMemoryFile>.
from_in_memory_file(f) == Outcome(Ok("RawFile"), RawFile_InMemory(f), NoMem, <<>>, <<>>)

\* From<Vec<u8>>.
from_vec(data) == Outcome(Ok("RawFile"), RawFile_InMemory(mem_from_vec(data)), NoMem, <<>>, <<>>)

----------------------------------------------------------------------------
(* What the caller holds *)

\* The variant held: a RawFile's, or InMemory for a bare InMemoryFile.
Holding(handle, m) ==
    IF handle.variant # "None" THEN handle.variant
    ELSE IF m # NoMem THEN "InMemory" ELSE "None"

\* The bytes of the backing store, its cursor, the logical name.
Store(handle, d) == IF handle.variant = "Disk" THEN d ELSE handle.f.data

Cursor(handle) == IF handle.variant = "Disk" THEN handle.file.pos ELSE handle.f.pos

NameOf(handle) == IF handle.variant = "Disk" THEN handle.name ELSE handle.f.name

\* The descriptors a caller may wrap: open for reading, or for reading and writing,
\* the cursor at 0 or 1 (a write-only descriptor is what create makes).
OsFiles == {File(p, TRUE, w) : p \in 0..1, w \in BOOLEAN}

----------------------------------------------------------------------------
(* The calls made so far that begin one of the scenarios the properties    *)
(* speak of: a history variable, read by no operation.                     *)

Kind(lab) ==
    CASE lab.op = "seek" /\ lab.arg = Start(0) -> "seek0"
      [] lab.op = "from_file" /\ lab.arg.content = <<>> /\ lab.arg.file = File(0, TRUE, TRUE)
            -> "from_empty"
      [] OTHER -> lab.op

Scenarios ==
    { <<"create", "write", "flush", "seek0", "convert_into_memory">>,
      <<"from_empty", "write", "flush", "seek0", "convert_into_memory">>,
      <<"create", "write", "sync_all", "seek0", "read", "metadata">>,
      <<"set_len", "seek0", "read">> }

IsPrefix(s, t) == Len(s) <= Len(t) /\ SubSeq(t, 1, Len(s)) = s

Kinds(labs) == [i \in DOMAIN labs |-> Kind(labs[i])]

Tracked(labs) == \E sc \in Scenarios : IsPrefix(Kinds(labs), sc)

ScenNext(labs, lab) ==
    IF Tracked(Append(labs, lab)) THEN Append(labs, lab)
    ELSE IF Tracked(<<lab>>) THEN <<lab>> ELSE <<>>

----------------------------------------------------------------------------
(* The state machine *)

Init ==
    /\ h = NoHandle
    /\ mem = NoMem
    /\ disk = <<>>
    /\ last = [op |-> "none", arg |-> <<>>, variant |-> "None", len |-> 0, pos |-> 0, res |-> "Ok"]
    /\ ret = Ok("()")
    /\ sys = <<>>
    /\ scen = <<>>

\* A panic unwinds the thread: nothing runs after it.
Running == ret.kind # "Panic"

Empty == h = NoHandle /\ mem = NoMem

\* The calls whose record keeps the length and the cursor they found.
Measured == {"set_len", "into_memory", "convert_into_memory"}

\* One call: its outcome becomes the state, and the call is recorded (last, scen).
\* The file is closed with its handle.
Do(op, arg, out) ==
    LET lab == [op |-> op, arg |-> arg, variant |-> h.variant,
                len |-> IF op \in Measured THEN Len(Store(h, disk)) ELSE 0,
                pos |-> IF op \in Measured THEN Cursor(h) ELSE 0,
                res |-> out.ret.kind]
    IN  /\ h' = out.h
        /\ mem' = out.mem
        /\ disk' = IF out.h.variant = "Disk" THEN out.disk ELSE <<>>
        /\ ret' = out.ret
        /\ sys' = out.sys
        /\ last' = lab
        /\ scen' = ScenNext(scen, lab)

InMemory == Running /\ Empty /\ \E path \in Paths : Do("in_memory", path, in_memory(path))

Create ==
    Running /\ Empty /\ \E path \in Paths, created \in BOOLEAN :
        Do("create", path, create(path, created))

Open ==
    Running /\ Empty /\ \E path \in Paths, opened \in BOOLEAN, d \in InitContents :
        Do("open", path, open(path, opened, d))

FromFile ==
    Running /\ Empty /\ \E file \in OsFiles, d \in InitContents :
        Do("from_file", [file |-> file, content |-> d], from_file(file, d))

FromVec == Running /\ Empty /\ \E d \in InitContents : Do("from_vec", d, from_vec(d))

FromInMemoryFile ==
    Running /\ h = NoHandle /\ mem # NoMem /\ Do("from_in_memory_file", <<>>, from_in_memory_file(mem))

\* The value goes out of scope.
Drop == Running /\ ~Empty /\ Do("drop", <<>>, Outcome(Ok("()"), NoHandle, NoMem, <<>>, <<>>))

Live == Running /\ h # NoHandle

IntoMemory == Live /\ Do("into_memory", <<>>, into_memory(h, disk))

ConvertIntoMemory == Live /\ Do("convert_into_memory", <<>>, convert_into_memory(h, disk))

WithName == Live /\ \E path \in Paths : Do("with_name", path, with_name(h, disk, path))

CurrentOffset == Live /\ Do("current_offset", <<>>, current_offset(h, disk))

SyncAll == Live /\ Do("sync_all", <<>>, sync_all(h, disk))

SyncData == Live /\ Do("sync_data", <<>>, sync_data(h, disk))

Metadata == Live /\ Do("metadata", <<>>, metadata(h, disk))

SetLen == Live /\ \E size \in Sizes : Do("set_len", size, set_len(h, disk, size))

Name == Live /\ Do("name", <<>>, name(h, disk))

Write ==
    Live /\ \E buf \in WriteBufs :
        /\ Cursor(h) + Len(buf) <= MaxLen
        /\ Do("write", buf, write(h, disk, buf))

Flush == Live /\ Do("flush", <<>>, flush(h, disk))

Read == Live /\ \E n \in ReadSizes : Do("read", n, read(h, disk, n))

Seek ==
    Live /\ \E to \in SeekArgs :
        /\ SeekTarget(Cursor(h), Len(Store(h, disk)), to) <= MaxPos
        /\ Do("seek", to, seek(h, disk, to))

Next ==
    \/ InMemory
    \/ Create
    \/ Open
    \/ FromFile
    \/ FromVec
    \/ FromInMemoryFile
    \/ Drop
    \/ IntoMemory
    \/ ConvertIntoMemory
    \/ WithName
    \/ CurrentOffset
    \/ SyncAll
    \/ SyncData
    \/ Metadata
    \/ SetLen
    \/ Name
    \/ Write
    \/ Flush
    \/ Read
    \/ Seek

Spec == Init /\ [][Next]_vars

----------------------------------------------------------------------------
(* Properties. A step of a call is a step whose record (last') names the   *)
(* call; the unprimed variables are the state the call found.              *)

\* C1: into_memory() on a disk-backed handle fails and gives back a disk-backed
\* handle with the same name, the same cursor and the same file content, and makes
\* no read, write or seek on the file.
C1_IntoMemoryOnDiskFails ==
    [][(last'.op = "into_memory" /\ h.variant = "Disk") =>
        /\ ret' = Err("RawFile")
        /\ h'.variant = "Disk"
        /\ h'.name = h.name
        /\ h'.file = h.file
        /\ mem' = NoMem
        /\ disk' = disk
        /\ sys' = <<>>]_vars

\* into_memory has failed on a named disk handle whose cursor stood inside a
\* non-empty file.
C1_Witness ==
    /\ last.op = "into_memory" /\ last.variant = "Disk"
    /\ ret.kind = "Err"
    /\ h.variant = "Disk" /\ h.name.tag = "Some"
    /\ h.file.pos > 0 /\ h.file.pos < Len(disk)

\* C2: convert_into_memory() on a disk-backed handle with the cursor at p <= len(C)
\* either succeeds with an in-memory file holding exactly C[p..len(C)], named as the
\* handle was (anonymous if it had no name), or fails with IoError and no handle.
C2_ConvertReadsRemaining ==
    [][(last'.op = "convert_into_memory" /\ h.variant = "Disk" /\ h.file.pos <= Len(disk)) =>
        /\ h' = NoHandle
        /\ \/ /\ ret' = Ok("InMemoryFile")
              /\ mem' # NoMem
              /\ mem'.data = SubSeq(disk, h.file.pos + 1, Len(disk))
              /\ mem'.name = h.name
           \/ /\ ret' = Err("IoError")
              /\ mem' = NoMem]_vars

\* convert_into_memory has succeeded on a named disk handle whose cursor stood
\* inside the file: bytes before the cursor were left out.
C2_Witness ==
    /\ last.op = "convert_into_memory" /\ last.variant = "Disk"
    /\ ret.kind = "Ok"
    /\ last.pos > 0 /\ last.pos < last.len
    /\ mem # NoMem /\ mem.name.tag = "Some" /\ Len(mem.data) = last.len - last.pos

\* C3: on a disk handle over an initially empty file, made by create(path) or by
\* wrapping a descriptor open for reading and writing at offset 0, write(B) in full,
\* flush(), seek to offset 0, convert_into_memory() succeeds and yields an in-memory
\* file whose content is B.
C3_RoundTrip ==
    [][(/\ last'.op = "convert_into_memory"
        /\ Len(scen) = 4
        /\ Kinds(scen) \in {<<"create", "write", "flush", "seek0">>,
                            <<"from_empty", "write", "flush", "seek0">>}
        /\ scen[1].res = "Ok"
        /\ scen[2].res = "Ok") =>
        /\ ret' = Ok("InMemoryFile")
        /\ mem' # NoMem
        /\ mem'.data = scen[2].arg]_vars

\* C4: create(path), write "hello", sync_all(), seek to 0, read into a 5-byte buffer,
\* metadata(): every step succeeds, the read returns "hello", metadata reports size 5.
C4_EndToEndDisk ==
    (/\ Len(scen) >= 2
     /\ IsPrefix(Kinds(scen), <<"create", "write", "sync_all", "seek0", "read", "metadata">>)
     /\ scen[1].res = "Ok"
     /\ scen[2].arg = Hello
     /\ (Len(scen) >= 5 => scen[5].arg = Len(Hello))) =>
        /\ \A i \in DOMAIN scen : scen[i].res = "Ok"
        /\ (Len(scen) = 5 => ret.val = Hello)
        /\ (Len(scen) = 6 => ret.val.len = Len(Hello))

\* C5: metadata() on a memory-backed handle returns a NotSupported error, does not
\* panic, and leaves the handle as it was.
C5_MetadataNotSupported ==
    [][(last'.op = "metadata" /\ h.variant = "InMemory") =>
        /\ ret' = Err("NotSupported")
        /\ h' = h]_vars

\* C6, as stated: after with_name(n) the handle is of the same variant, name()
\* returns exactly n, and the backing content and the cursor are those of before.
C6_WithNameExact ==
    [][last'.op = "with_name" =>
        /\ h'.variant = h.variant
        /\ name(h', disk').ret.val = Some(last'.arg)
        /\ Store(h', disk') = Store(h, disk)
        /\ Cursor(h') = Cursor(h)]_vars

\* C6, amended: after with_name(n) the handle is of the same variant, name() returns
\* the lossy Unicode form of n (n itself when n is valid Unicode), and the backing
\* content, the cursor and the descriptor are those of before.
C6_WithNameLossy ==
    [][last'.op = "with_name" =>
        /\ h'.variant = h.variant
        /\ name(h', disk').ret.val = Some(to_string_lossy(last'.arg))
        /\ (IsUnicode(last'.arg) => name(h', disk').ret.val = Some(last'.arg))
        /\ Store(h', disk') = Store(h, disk)
        /\ Cursor(h') = Cursor(h)
        /\ (h.variant = "Disk" => h'.file = h.file)]_vars

\* with_name("foo") has renamed a disk handle whose cursor stood inside a non-empty
\* file.
C6_Witness ==
    /\ last.op = "with_name" /\ last.arg = <<"foo">> /\ last.variant = "Disk"
    /\ h.variant = "Disk" /\ h.name = Some(<<"foo">>)
    /\ h.file.pos > 0 /\ h.file.pos < Len(disk)

\* The calls that take a handle and leave a handle.
StableOps ==
    {"read", "write", "flush", "seek", "current_offset", "set_len", "sync_all",
     "sync_data", "name", "with_name", "into_memory"}

\* C7: the caller holds one variant at a time; read, write, flush, seek,
\* current_offset, set_len, sync_all, sync_data, name, with_name and into_memory never
\* change it; Disk becomes InMemory only by a successful convert_into_memory; InMemory
\* never becomes Disk.
C7_VariantStateMachine ==
    [][/\ ~(h' # NoHandle /\ mem' # NoMem)
       /\ Holding(h', mem') \in {"Disk", "InMemory", "None"}
       /\ (last'.op \in StableOps => Holding(h', mem') = Holding(h, mem))
       /\ (Holding(h, mem) = "Disk" /\ Holding(h', mem') = "InMemory" =>
              last'.op = "convert_into_memory" /\ ret'.kind = "Ok")
       /\ ~(Holding(h, mem) = "InMemory" /\ Holding(h', mem') = "Disk")]_vars

\* A disk handle with the name of a non-Unicode path has become an in-memory file,
\* and that file has been wrapped as a handle again.
C7_Witness ==
    /\ last.op = "from_in_memory_file"
    /\ h.variant = "InMemory"
    /\ h.f.name = Some(<<"tmp", Replacement>>)
    /\ h.f.data = <<108, 108, 111>>

\* C8: after a set_len(0) that succeeds on a handle holding N > 0 bytes, a seek to 0
\* and a read return zero bytes; a set_len(N + K) that succeeds leaves N + K bytes, the
\* first N as they were and the rest zero, and a seek to 0 and a read of N + K bytes
\* then return them all.
C8_Truncation ==
    [][/\ (/\ last'.op = "set_len" /\ ret'.kind = "Ok"
           /\ Len(Store(h, disk)) > 0 /\ last'.arg >= Len(Store(h, disk))) =>
              Store(h', disk') = Store(h, disk) \o Zeros(last'.arg - Len(Store(h, disk)))
       /\ (/\ last'.op = "read"
           /\ Len(scen) = 2
           /\ Kinds(scen) = <<"set_len", "seek0">>
           /\ scen[1].res = "Ok"
           /\ scen[1].len > 0) =>
              /\ (scen[1].arg = 0 => ret' = Ok(<<>>))
              /\ (scen[1].arg >= scen[1].len /\ last'.arg >= scen[1].arg =>
                     ret'.kind = "Ok" /\ Len(ret'.val) = scen[1].arg)]_vars

\* C9, as stated: when set_len(size) succeeds with the cursor past size, the cursor
\* moves to size, on either variant; otherwise the cursor stays.
C9_CursorMovesToNewLength ==
    [][(last'.op = "set_len" /\ ret'.kind = "Ok") =>
        current_offset(h', disk').ret.val =
            IF Cursor(h) > last'.arg THEN last'.arg ELSE Cursor(h)]_vars

\* C9, amended: when set_len(size) succeeds with the cursor past size, the cursor of
\* the memory variant moves to size and the cursor of the disk variant stays where it
\* was, past the new end; otherwise the cursor stays.
C9_CursorAfterSetLen ==
    [][(last'.op = "set_len" /\ ret'.kind = "Ok") =>
        current_offset(h', disk').ret.val =
            IF Cursor(h) > last'.arg /\ h.variant = "InMemory" THEN last'.arg ELSE Cursor(h)]_vars

\* set_len has succeeded on a disk handle and left its cursor past the new end.
C9_Witness ==
    /\ last.op = "set_len" /\ last.variant = "Disk"
    /\ ret.kind = "Ok"
    /\ h.variant = "Disk"
    /\ last.pos > last.arg /\ h.file.pos = last.pos /\ Len(disk) = last.arg

\* C10: into_memory() and convert_into_memory() on a memory-backed handle succeed and
\* return the in-memory file it holds: the same bytes, name and cursor, with no call
\* on any file.
C10_MemoryConversionIdentity ==
    [][(last'.op \in {"into_memory", "convert_into_memory"} /\ h.variant = "InMemory") =>
        /\ ret' = Ok("InMemoryFile")
        /\ mem' = h.f
        /\ h' = NoHandle
        /\ sys' = <<>>]_vars

\* convert_into_memory has returned the named in-memory file 01 02 03 with its
\* cursor inside the bytes.
C10_Witness ==
    /\ last.op = "convert_into_memory" /\ last.variant = "InMemory"
    /\ ret.kind = "Ok"
    /\ mem # NoMem /\ mem.data = Bytes123 /\ mem.name = Some(<<"foo">>)
    /\ mem.pos = 1 /\ last.pos = 1

====
